---- MODULE Spec2Model ----
(***************************************************************************)
(* State-machine model of the bandit simulation (bandits.py) and of the    *)
(* batched dataset and training loop (rnn_utils.py).                       *)
(*                                                                         *)
(* Probabilities of the environments are fixed-point numbers: the integer  *)
(* p stands for p / PScale.  Value estimates are binary64 floats, kept as   *)
(* exact dyadic rationals.  Python's None is the empty tuple, Some(v) is    *)
(* the one-element tuple <<v>>.  Array shapes are <<timesteps, episodes,    *)
(* features>>.                                                              *)
(***************************************************************************)
EXTENDS Integers, Sequences, FiniteSets, TLC

VARIABLES
  ds,       \* the DatasetRNN object (or its pending constructor arguments)
  served,   \* the batches returned by __next__, in call order
  dsErr,    \* the exception raised by the last dataset call, "none" if none
  env,      \* the environment object (or its pending constructor arguments)
  envOut,   \* what the last environment call did: its locals and its result
  agent,    \* the agent object
  agentOut, \* what the last agent call did: its arguments, result and the
            \* agent as it was before the call
  run,      \* the frame of run_experiment: its position and its locals
  hist,     \* per trial of the run: the steps taken and what they read
  globals,  \* the names bound in the namespace of module rnn_utils
  tm        \* the frame of train_model: its position, arguments and locals

vars == <<ds, served, dsErr, env, envOut, agent, agentOut, agentOut, run, hist, globals, tm>>
runVars == <<agent, agentOut, run, hist>>
tmVars == <<globals, tm>>
dsVars == <<ds, served, dsErr>>
envVars == <<env, envOut>>

----------------------------------------------------------------------------
(* Bounds of the model *)

MaxT == 2          \* timestep counts of xs and ys range over 1..MaxT
MaxE == 10         \* episode counts range over 0..MaxE, |batch_size| too
MaxCalls == 5      \* number of __next__ calls followed on one dataset
PScale == 2        \* probabilities are the grid points 0/PScale .. PScale/PScale
MaxDrift == 1      \* a drift of sigma > 0 ranges over -MaxDrift..MaxDrift
MaxTrials == 2     \* n_trials ranges over 0..MaxTrials
AlphaDen == 10     \* learning rates include the floats n / AlphaDen, n in
                   \* 0..AlphaDen
MaxUpdates == 2    \* update calls followed on one agent since its last reset
MaxStreak == 54    \* the same when every call is update(choice, reward) with
                   \* the same choice and reward, on a Q-learning agent
MaxSteps == 2      \* n_steps ranges over 0..MaxSteps

----------------------------------------------------------------------------
(* Python helpers *)

None == <<>>
Some(v) == <<v>>

Min(a, b) == IF a < b THEN a ELSE b
Max(a, b) == IF a > b THEN a ELSE b

\* a % b of Python ints, b # 0: the result has the sign of the divisor
PyMod(a, b) == IF b > 0 THEN a % b ELSE -((-a) % (-b))

\* a // b of Python ints, b # 0: floor division
PyFloorDiv(a, b) == IF b > 0 THEN a \div b ELSE (-a) \div (-b)

\* the indices selected by a[start:end] on an axis of length n
PySlice(start, end, n) ==
  LET norm(i) == IF i < 0 THEN Max(i + n, 0) ELSE Min(i, n)
      s == norm(start)
      e == norm(end)
  IN  [k \in 1..Max(e - s, 0) |-> s + k - 1]

----------------------------------------------------------------------------
(* DatasetRNN *)

DatasetArgs(xs, ys, bs) ==
  [state |-> "args", xs |-> xs, ys |-> ys, bs |-> bs,
   batch_size |-> 0, dataset_size |-> 0, idx |-> 0, n_batches |-> 0]

\* DatasetRNN.__init__: the constructed object, or the exception raised
DatasetRNN_init(xs, ys, bs) ==
  LET batch_size == IF bs = None THEN xs[2] ELSE bs[1]
      raise(e) == [err |-> e, obj |-> DatasetArgs(xs, ys, bs)]
  IN  IF xs[1] # ys[1] THEN raise("ValueError")
      ELSE IF xs[2] # ys[2] THEN raise("ValueError")
      ELSE IF batch_size = 0 THEN raise("ZeroDivisionError")
      ELSE IF PyMod(xs[2], batch_size) # 0 THEN raise("ValueError")
      ELSE [err |-> "none",
            obj |-> [state |-> "ok", xs |-> xs, ys |-> ys, bs |-> bs,
                     batch_size |-> batch_size,
                     dataset_size |-> xs[2],
                     idx |-> 0,
                     n_batches |-> PyFloorDiv(xs[2], batch_size)]]

\* the cursor after a call of __next__ whose slice is [start, end)
NextIdx(d, end) == IF end = d.dataset_size THEN 0 ELSE end

\* DatasetRNN.__next__: the object after the call, the batch, the exception
DatasetRNN_next(d) ==
  LET start == d.idx
      end == start + d.batch_size
  IN  IF ~(end <= d.dataset_size)
      THEN [err |-> "AssertionError", obj |-> d, batch |-> None]
      ELSE [err |-> "none",
            obj |-> [d EXCEPT !.idx = NextIdx(d, end)],
            batch |-> Some([start |-> start, end |-> end,
                            timesteps |-> d.xs[1],
                            features |-> <<d.xs[3], d.ys[3]>>,
                            episodes |-> PySlice(start, end, d.dataset_size)])]

\* the sizes of the feature axis of xs and ys that are followed
Features == {1, 2}

Shapes == (1..MaxT) \X (0..MaxE) \X Features
BatchSizeArgs == {None} \cup {Some(b) : b \in (-MaxE)..MaxE}

\* the constructor call
DatasetConstruct ==
  /\ ds.state = "args"
  /\ LET r == DatasetRNN_init(ds.xs, ds.ys, ds.bs)
     IN  /\ ds' = IF r.err = "none" THEN r.obj ELSE [ds EXCEPT !.state = "raised"]
         /\ dsErr' = r.err
  /\ UNCHANGED <<served, envVars, runVars, tmVars>>

\* one call of next(dataset)
DatasetNext ==
  /\ ds.state = "ok"
  /\ Len(served) < MaxCalls
  /\ dsErr = "none"
  /\ LET r == DatasetRNN_next(ds)
     IN  /\ ds' = r.obj
         /\ dsErr' = r.err
         /\ served' = IF r.err = "none" THEN Append(served, r.batch[1]) ELSE served
  /\ UNCHANGED <<envVars, runVars, tmVars>>

NextDataset == DatasetConstruct \/ DatasetNext


----------------------------------------------------------------------------
(* Random draws: the set of values a draw can produce *)

\* np.random.binomial(1, p), p on the grid 0..PScale
Binomial(p) == IF p = 0 THEN {0} ELSE IF p = PScale THEN {1} ELSE {0, 1}

\* np.random.rand() < p: rand() is in [0, 1)
RandLess(p) == IF p <= 0 THEN {0} ELSE IF p >= PScale THEN {1} ELSE {0, 1}

\* np.random.rand(): a grid point of [0, 1)
Rand == 0..(PScale - 1)

\* np.random.normal(loc=0, scale=sigma): exactly 0 for sigma = 0, any real else
Normal(sigma) == IF sigma = 0 THEN {0} ELSE (-MaxDrift)..MaxDrift

----------------------------------------------------------------------------
(* EnvironmentBanditsDrift *)

NoCall == [op |-> "none", choice |-> 0, reward |-> 0, err |-> "none",
           drift |-> <<0, 0>>, reward_prob_trial |-> 0, flipped |-> 0]

DriftArgs(sigma) ==
  [kind |-> "drift", state |-> "args", sigma |-> sigma, reward_probs |-> None]

EnvironmentBanditsDrift_init_positive(sigma, sample) ==
  IF sigma <= 0
  THEN [err |-> "ValueError", obj |-> [DriftArgs(sigma) EXCEPT !.state = "raised"]]
  ELSE [err |-> "none",
        obj |-> [DriftArgs(sigma) EXCEPT !.state = "ok", !.reward_probs = sample]]

\* EnvironmentBanditsDrift.__init__ with _new_sess: sample is np.random.rand(2)
EnvironmentBanditsDrift_init(sigma, sample) ==
  IF sigma < 0
  THEN [err |-> "ValueError", obj |-> [DriftArgs(sigma) EXCEPT !.state = "raised"]]
  ELSE [err |-> "none",
        obj |-> [DriftArgs(sigma) EXCEPT !.state = "ok", !.reward_probs = sample]]

ClampLowOnly(p) == <<Max(p[1], 0), Max(p[2], 0)>>

\* np.minimum(np.maximum(p, [0, 0]), [1, 1])
ClampProbs(p) == <<Min(Max(p[1], 0), PScale), Min(Max(p[2], 0), PScale)>>

\* EnvironmentBanditsDrift.step, past the check of choice
DriftStepBody(e, choice, reward, drift) ==
  LET drifted == <<e.reward_probs[1] + drift[1], e.reward_probs[2] + drift[2]>>
  IN  [err |-> "none", reward |-> reward, drift |-> drift,
       obj |-> [e EXCEPT !.reward_probs = ClampProbs(drifted)]]

EnvironmentBanditsDrift_step_check_last(e, choice) ==
  IF ~(choice = 0 \/ choice = 1)
  THEN {[DriftStepBody(e, choice, 0, <<d0, d1>>) EXCEPT !.err = "ValueError"] :
          d0 \in Normal(e.sigma), d1 \in Normal(e.sigma)}
  ELSE {DriftStepBody(e, choice, reward, <<d0, d1>>) :
          reward \in RandLess(e.reward_probs[choice + 1]),
          d0 \in Normal(e.sigma), d1 \in Normal(e.sigma)}

\* EnvironmentBanditsDrift.step: the outcomes of one call
EnvironmentBanditsDrift_step(e, choice) ==
  IF ~(choice = 0 \/ choice = 1)
  THEN {[err |-> "ValueError", reward |-> 0, drift |-> <<0, 0>>, obj |-> e]}
  ELSE {DriftStepBody(e, choice, reward, <<d0, d1>>) :
          reward \in RandLess(e.reward_probs[choice + 1]),
          d0 \in Normal(e.sigma), d1 \in Normal(e.sigma)}

----------------------------------------------------------------------------
(* EnvironmentBanditsFlips *)

FlipsArgs(flip, high, low) ==
  [kind |-> "flips", state |-> "args", block_flip_prob |-> flip,
   reward_prob_high |-> high, reward_prob_low |-> low,
   block |-> 0, reward_probabilities |-> <<0, 0>>]

new_block_noflip(e) ==
  [e EXCEPT !.reward_probabilities =
       IF e.block = 1 THEN <<e.reward_prob_high, e.reward_prob_low>>
       ELSE <<e.reward_prob_low, e.reward_prob_high>>]

\* EnvironmentBanditsFlips.new_block
new_block(e) ==
  LET b == 1 - e.block
  IN  [e EXCEPT !.block = b,
                !.reward_probabilities =
                   IF b = 1 THEN <<e.reward_prob_high, e.reward_prob_low>>
                   ELSE <<e.reward_prob_low, e.reward_prob_high>>]

\* EnvironmentBanditsFlips.__init__: block0 is np.random.binomial(1, 0.5)
EnvironmentBanditsFlips_init(flip, high, low, block0) ==
  new_block([FlipsArgs(flip, high, low) EXCEPT !.state = "ok", !.block = block0])

\* element i of a Python list of 2 items: the 1-based position, 0 for IndexError
ListIndex(i) == IF i \in {0, 1} THEN i + 1 ELSE IF i \in {-1, -2} THEN i + 3 ELSE 0

next_trial_flip_first(e, choice) ==
  IF ListIndex(choice) = 0
  THEN {[err |-> "IndexError", reward |-> 0, obj |-> e,
         reward_prob_trial |-> 0, flipped |-> 0]}
  ELSE UNION {
         LET e2 == IF flip = 1 THEN new_block(e) ELSE e
             reward_prob_trial == e2.reward_probabilities[ListIndex(choice)]
         IN  {[err |-> "none", reward |-> reward, obj |-> e2,
               reward_prob_trial |-> reward_prob_trial, flipped |-> flip] :
                reward \in Binomial(reward_prob_trial)} :
         flip \in Binomial(e.block_flip_prob)}

\* EnvironmentBanditsFlips.next_trial: the outcomes of one call
EnvironmentBanditsFlips_next_trial(e, choice) ==
  IF ListIndex(choice) = 0
  THEN {[err |-> "IndexError", reward |-> 0, obj |-> e,
         reward_prob_trial |-> 0, flipped |-> 0]}
  ELSE LET reward_prob_trial == e.reward_probabilities[ListIndex(choice)]
       IN  {[err |-> "none", reward |-> reward,
             obj |-> IF flip = 1 THEN new_block(e) ELSE e,
             reward_prob_trial |-> reward_prob_trial,
             flipped |-> flip] :
              reward \in Binomial(reward_prob_trial),
              flip \in Binomial(e.block_flip_prob)}

----------------------------------------------------------------------------
(* Calls on a standalone environment *)

ChoiceInputs == -1..2
Sigmas == {-1, 0, 1}
Probs == 0..PScale
NoEnv == DriftArgs(0)

\* EnvironmentBanditsDrift(sigma)
DriftConstruct ==
  /\ env.kind = "drift" /\ env.state = "args"
  /\ \E s0 \in Rand, s1 \in Rand :
        LET r == EnvironmentBanditsDrift_init(env.sigma, <<s0, s1>>)
        IN  /\ env' = r.obj
            /\ envOut' = [NoCall EXCEPT !.op = "init", !.err = r.err]
  /\ UNCHANGED <<dsVars, runVars, tmVars>>

\* environment.step(choice)
DriftStep ==
  /\ env.kind = "drift" /\ env.state = "ok"
  /\ \E choice \in ChoiceInputs :
        \E r \in EnvironmentBanditsDrift_step(env, choice) :
           /\ env' = r.obj
           /\ envOut' = [NoCall EXCEPT !.op = "step", !.choice = choice,
                                       !.reward = r.reward, !.err = r.err,
                                       !.drift = r.drift]
  /\ UNCHANGED <<dsVars, runVars, tmVars>>

\* EnvironmentBanditsFlips(block_flip_prob, reward_prob_high, reward_prob_low)
FlipsConstruct ==
  /\ env.kind = "flips" /\ env.state = "args"
  /\ \E block0 \in {0, 1} :
        /\ env' = EnvironmentBanditsFlips_init(env.block_flip_prob,
                     env.reward_prob_high, env.reward_prob_low, block0)
        /\ envOut' = [NoCall EXCEPT !.op = "init"]
  /\ UNCHANGED <<dsVars, runVars, tmVars>>

\* environment.next_trial(choice)
FlipsNextTrial ==
  /\ env.kind = "flips" /\ env.state = "ok"
  /\ \E choice \in ChoiceInputs :
        \E r \in EnvironmentBanditsFlips_next_trial(env, choice) :
           /\ env' = r.obj
           /\ envOut' = [NoCall EXCEPT !.op = "next_trial", !.choice = choice,
                                       !.reward = r.reward, !.err = r.err,
                                       !.reward_prob_trial = r.reward_prob_trial,
                                       !.flipped = r.flipped]
  /\ UNCHANGED <<dsVars, runVars, tmVars>>

\* environment.new_block()
FlipsNewBlock ==
  /\ env.kind = "flips" /\ env.state = "ok"
  /\ env' = new_block(env)
  /\ envOut' = [NoCall EXCEPT !.op = "new_block"]
  /\ UNCHANGED <<dsVars, runVars, tmVars>>

NextEnv ==
  DriftConstruct \/ DriftStep \/ FlipsConstruct \/ FlipsNextTrial \/ FlipsNewBlock


----------------------------------------------------------------------------
(* AgentQ *)

\* A float is kept as the exact dyadic rational it holds: m * 2^(-e), with the
\* natural number m written as its bits, lowest first, and no leading zero bit.
\* The floats in use lie in [0, 1].

MantissaBits == 53   \* bits of the significand of a binary64 float
MinExp == 1074       \* 2^(-MinExp) is the smallest positive binary64 float

RECURSIVE NatBits(_)
NatBits(n) == IF n = 0 THEN <<>> ELSE <<n % 2>> \o NatBits(n \div 2)

\* the bits without the zero bits above the highest one bit
Trim(m) ==
  LET tops == {i \in 1..Len(m) : m[i] = 1 /\ \A j \in (i + 1)..Len(m) : m[j] = 0}
  IN  IF tops = {} THEN <<>> ELSE SubSeq(m, 1, CHOOSE i \in tops : TRUE)

\* The arithmetic on bits is done on digits of base 1024, ten bits each.

\* the natural number that a few bits write
RECURSIVE BitsValue(_)
BitsValue(b) == IF b = <<>> THEN 0 ELSE Head(b) + 2 * BitsValue(Tail(b))

\* the ten bits of a digit of base 1024
DigitBits(v) == [j \in 1..10 |-> (v \div (2 ^ (j - 1))) % 2]

\* the natural number m in base 1024, lowest digit first
Limbs(m) ==
  [j \in 1..((Len(m) + 9) \div 10) |->
     BitsValue(SubSeq(m, 10 * j - 9, Min(10 * j, Len(m))))]

\* digit k of a, 0 above its highest digit
Limb(a, k) == IF k <= Len(a) THEN a[k] ELSE 0

\* the bits of a + b + carry from digit k on
RECURSIVE AddLimbs(_, _, _, _)
AddLimbs(a, b, k, carry) ==
  IF k > Max(Len(a), Len(b)) THEN (IF carry = 1 THEN <<1>> ELSE <<>>)
  ELSE LET t == Limb(a, k) + Limb(b, k) + carry
       IN  DigitBits(t % 1024) \o AddLimbs(a, b, k + 1, t \div 1024)

AddBits(a, b, carry) == Trim(AddLimbs(Limbs(a), Limbs(b), 1, carry))

\* the bits of a - b - borrow from digit k on, for a >= b
RECURSIVE SubLimbs(_, _, _, _)
SubLimbs(a, b, k, borrow) ==
  IF k > Len(a) THEN <<>>
  ELSE LET t == a[k] - Limb(b, k) - borrow
       IN  DigitBits((t + 1024) % 1024)
             \o SubLimbs(a, b, k + 1, IF t < 0 THEN 1 ELSE 0)

\* a - b for a >= b
SubBits(a, b) == Trim(SubLimbs(Limbs(a), Limbs(b), 1, 0))

\* the sum of the products a[i] * b[k + 1 - i] for i from i on
RECURSIVE MulColumn(_, _, _, _)
MulColumn(a, b, k, i) ==
  IF i > Min(k, Len(a)) THEN 0
  ELSE a[i] * b[k + 1 - i] + MulColumn(a, b, k, i + 1)

\* the bits of a * b from digit k on: the long multiplication, column by column
RECURSIVE MulColumns(_, _, _, _)
MulColumns(a, b, k, carry) ==
  IF k > Len(a) + Len(b) THEN <<>>
  ELSE LET t == MulColumn(a, b, k, Max(1, k + 1 - Len(b))) + carry
       IN  DigitBits(t % 1024) \o MulColumns(a, b, k + 1, t \div 1024)

MulBits(a, b) == Trim(MulColumns(Limbs(a), Limbs(b), 1, 0))

\* a <= b for natural numbers written as bits
LeqBits(a, b) ==
  IF Len(a) # Len(b) THEN Len(a) < Len(b)
  ELSE \/ a = b
       \/ \E i \in 1..Len(a) :
             /\ a[i] < b[i]
             /\ \A j \in (i + 1)..Len(a) : a[j] = b[j]

\* m * 2^k
ShiftBits(m, k) == IF m = <<>> THEN m ELSE [i \in 1..k |-> 0] \o m

\* the dyadic m * 2^(-e) in lowest terms
Dyadic(m, e) ==
  LET lows == {i \in 1..Len(m) : m[i] = 1 /\ \A j \in 1..(i - 1) : m[j] = 0}
  IN  IF lows = {} THEN [m |-> <<>>, e |-> 0]
      ELSE LET drop == Min((CHOOSE i \in lows : TRUE) - 1, e)
           IN  [m |-> SubSeq(m, drop + 1, Len(m)), e |-> e - drop]

DAdd(x, y) ==
  LET e == Max(x.e, y.e)
  IN  Dyadic(AddBits(ShiftBits(x.m, e - x.e), ShiftBits(y.m, e - y.e), 0), e)

\* x - y for x >= y
DSub(x, y) ==
  LET e == Max(x.e, y.e)
  IN  Dyadic(SubBits(ShiftBits(x.m, e - x.e), ShiftBits(y.m, e - y.e)), e)

DLeq(x, y) ==
  LET e == Max(x.e, y.e)
  IN  LeqBits(ShiftBits(x.m, e - x.e), ShiftBits(y.m, e - y.e))

DLess(x, y) == ~DLeq(y, x)

\* x * k for a natural number k
RECURSIVE DMulNat(_, _)
DMulNat(x, k) == IF k = 0 THEN Dyadic(<<>>, 0) ELSE DAdd(x, DMulNat(x, k - 1))

\* the exact product of x and y
DMul(x, y) == Dyadic(MulBits(x.m, y.m), x.e + y.e)

\* the binary64 float nearest to x, ties to the even significand
RoundFloat(x) ==
  LET len == Len(x.m)
      drop == Max(Max(len - MantissaBits, x.e - MinExp), 0)
      kept == IF drop >= len THEN <<>> ELSE SubSeq(x.m, drop + 1, len)
      guard == IF drop <= len THEN x.m[drop] ELSE 0
      sticky == \E i \in 1..Min(drop - 1, len) : x.m[i] = 1
      odd == kept # <<>> /\ kept[1] = 1
      up == guard = 1 /\ (sticky \/ odd)
  IN  IF drop = 0 THEN x
      ELSE Dyadic(IF up THEN AddBits(kept, <<1>>, 0) ELSE kept, x.e - drop)

\* the first k binary digits of r / d after the point, for r < d, and a last
\* digit that is 1 when digits other than 0 follow them
RECURSIVE Digits(_, _, _)
Digits(r, d, k) ==
  IF k = 0 THEN <<IF r = 0 THEN 0 ELSE 1>>
  ELSE <<(2 * r) \div d>> \o Digits((2 * r) % d, d, k - 1)

\* the float n / d for ints 0 <= n <= d, d > 0: the float nearest to the
\* quotient, which is also what the decimal literal of the quotient denotes
FloatOf(n, d) ==
  LET k == MantissaBits + d
      digits == <<n \div d>> \o Digits(n % d, d, k)
      len == Len(digits)
  IN  RoundFloat(Dyadic(Trim([i \in 1..len |-> digits[len + 1 - i]]), k + 1))

\* 2^(-k)
Pow2Neg(k) == Dyadic(<<1>>, k)

\* 0.0, 1.0 and 0.5
Zero == Dyadic(<<>>, 0)
One == Dyadic(<<1>>, 0)
Half == Pow2Neg(1)

\* 2^-54, a float so small that 0.5 + Tiny is 0.5
Tiny == Pow2Neg(MantissaBits + 1)

\* the learning rates passed to the constructors
Alphas == {FloatOf(n, AlphaDen) : n \in 0..AlphaDen} \cup {Tiny}

\* (1 - alpha) * x + alpha * reward as the float arithmetic of line 56 computes
\* it: the difference, the two products and the sum are each rounded to a float
Lerp(alpha, x, reward) ==
  LET keep == RoundFloat(DSub(One, alpha))
      product == RoundFloat(DMul(keep, x))
      gain == RoundFloat(DMulNat(alpha, reward))
  IN  RoundFloat(DAdd(product, gain))

\* AgentQ.new_sess
AgentQ_new_sess(a) == [a EXCEPT !.q = <<Half, Half>>]

\* AgentQ.__init__
AgentQ_init(alpha, beta) ==
  AgentQ_new_sess([kind |-> "Q", alpha |-> alpha, beta |-> beta, q |-> <<>>])

\* AgentQ.get_choice: np.random.choice(2, p=softmax(beta * q)), where both
\* probabilities are positive
AgentQ_get_choice(a) == {0, 1}

\* AgentQ.get_choice_probs: the softmax of beta * q, named by beta and q
AgentQ_get_choice_probs(a) ==
  [obj |-> a, probs |-> [softmax |-> [beta |-> a.beta, q |-> a.q]]]

AgentQ_update_no_decay(a, choice, reward) ==
  [a EXCEPT !.q[choice + 1] =
     RoundFloat(DAdd(a.q[choice + 1], RoundFloat(DMulNat(a.alpha, reward))))]

AgentQ_update_both(a, choice, reward) ==
  [a EXCEPT !.q = [i \in 1..2 |-> Lerp(a.alpha, a.q[i], reward)]]

\* AgentQ.update
AgentQ_update(a, choice, reward) ==
  [a EXCEPT !.q[choice + 1] = Lerp(a.alpha, a.q[choice + 1], reward)]

----------------------------------------------------------------------------
(* AgentLeakyActorCritic *)

\* The policy parameter theta is kept as the updates applied to it since it was
\* last set to zeros: each entry is the choice, the reward and the value of v
\* that the update read.  v is a float like q.

\* AgentLeakyActorCritic.new_sess
AgentLeakyActorCritic_new_sess(a) == [a EXCEPT !.theta = <<>>, !.v = Half]

\* AgentLeakyActorCritic.__init__
AgentLeakyActorCritic_init(alpha_critic, alpha_actor_learn, alpha_actor_forget) ==
  AgentLeakyActorCritic_new_sess(
    [kind |-> "AC", alpha_critic |-> alpha_critic,
     alpha_actor_learn |-> alpha_actor_learn,
     alpha_actor_forget |-> alpha_actor_forget, theta |-> <<>>, v |-> <<>>])

\* AgentLeakyActorCritic.get_choice_probs: the softmax of theta
AgentLeakyActorCritic_get_choice_probs(a) ==
  [obj |-> a, probs |-> [softmax |-> a.theta]]

\* AgentLeakyActorCritic.update
AgentLeakyActorCritic_update(a, choice, reward) ==
  [a EXCEPT !.theta = Append(a.theta, <<choice, reward, a.v>>),
            !.v = Lerp(a.alpha_critic, a.v, reward)]

----------------------------------------------------------------------------
(* AgentNetwork *)

\* The network is some deterministic function of an input and a hidden state.
\* Its output is named by the arguments it was computed from, and a hidden
\* state by the inputs the network has consumed since the initial state.

\* self._model_fun(xs, state)
model_fun(xs, state) ==
  [y_hat |-> [xs |-> xs, state |-> state], new_state |-> Append(state, xs)]

\* AgentNetwork.new_sess
AgentNetwork_new_sess(a) == [a EXCEPT !.state = a.initial_state]

\* AgentNetwork.__init__
AgentNetwork_init ==
  AgentNetwork_new_sess(
    [kind |-> "Net", initial_state |-> <<>>, xs |-> <<0, 0>>, state |-> <<>>])

AgentNetwork_get_choice_probs_stateful(a) ==
  LET r == model_fun(a.xs, a.state)
  IN  [obj |-> [a EXCEPT !.state = r.new_state], probs |-> [softmax |-> r.y_hat]]

\* AgentNetwork.get_choice_probs
AgentNetwork_get_choice_probs(a) ==
  LET r == model_fun(a.xs, a.state)
  IN  [obj |-> a, probs |-> [softmax |-> r.y_hat]]

\* AgentNetwork.update
AgentNetwork_update(a, choice, reward) ==
  LET xs == <<choice, reward>>
  IN  [a EXCEPT !.xs = xs, !.state = model_fun(xs, a.state).new_state]

----------------------------------------------------------------------------
(* Calls on a standalone agent *)

NoAgentCall == [op |-> "none", choice |-> 0, reward |-> 0, probs |-> None,
                before |-> None, updates |-> 0, streak |-> None]

\* the value of streak once two different updates have been made
Mixed == Some(<<-1, -1>>)

\* agent.new_sess() of the agent's class
new_sess(a) ==
  CASE a.kind = "Q" -> AgentQ_new_sess(a)
    [] a.kind = "AC" -> AgentLeakyActorCritic_new_sess(a)
    [] a.kind = "Net" -> AgentNetwork_new_sess(a)

\* agent.get_choice_probs() of the agent's class
get_choice_probs(a) ==
  CASE a.kind = "Q" -> AgentQ_get_choice_probs(a)
    [] a.kind = "AC" -> AgentLeakyActorCritic_get_choice_probs(a)
    [] a.kind = "Net" -> AgentNetwork_get_choice_probs(a)

\* agent.update(choice, reward) of the agent's class
update(a, choice, reward) ==
  CASE a.kind = "Q" -> AgentQ_update(a, choice, reward)
    [] a.kind = "AC" -> AgentLeakyActorCritic_update(a, choice, reward)
    [] a.kind = "Net" -> AgentNetwork_update(a, choice, reward)

\* agent.new_sess()
AgentNewSess ==
  /\ agent' = new_sess(agent)
  /\ agentOut' = [NoAgentCall EXCEPT !.op = "new_sess", !.before = agent]
  /\ UNCHANGED <<dsVars, envVars, run, hist, tmVars>>

\* agent.get_choice_probs()
AgentGetChoiceProbs ==
  /\ LET r == get_choice_probs(agent)
     IN  /\ agent' = r.obj
         /\ agentOut' = [NoAgentCall EXCEPT !.op = "get_choice_probs",
                                            !.probs = r.probs, !.before = agent,
                                            !.updates = agentOut.updates,
                                            !.streak = agentOut.streak]
  /\ UNCHANGED <<dsVars, envVars, run, hist, tmVars>>

\* agent.get_choice(): np.random.choice(2, p=choice_probs), where both
\* probabilities are positive
AgentGetChoice ==
  /\ LET r == get_choice_probs(agent)
     IN  \E choice \in {0, 1} :
            /\ agent' = r.obj
            /\ agentOut' = [NoAgentCall EXCEPT !.op = "get_choice",
                                               !.choice = choice,
                                               !.probs = r.probs,
                                               !.before = agent,
                                               !.updates = agentOut.updates,
                                            !.streak = agentOut.streak]
  /\ UNCHANGED <<dsVars, envVars, run, hist, tmVars>>

\* agent.update(choice, reward): any MaxUpdates calls are followed, and
\* MaxStreak calls in a row that repeat one update of a Q-learning agent
AgentUpdate ==
  /\ \E choice \in {0, 1}, reward \in {0, 1} :
        /\ \/ agentOut.updates < MaxUpdates
           \/ /\ agent.kind = "Q" /\ agentOut.updates < MaxStreak
              /\ agentOut.op = "update"
              /\ agentOut.streak = Some(<<choice, reward>>)
        /\ agent' = update(agent, choice, reward)
        /\ agentOut' = [NoAgentCall EXCEPT !.op = "update", !.choice = choice,
                                           !.reward = reward, !.before = agent,
                                           !.updates = agentOut.updates + 1,
                                           !.streak =
                                              IF agentOut.streak \in
                                                   {None, Some(<<choice, reward>>)}
                                              THEN Some(<<choice, reward>>)
                                              ELSE Mixed]
  /\ UNCHANGED <<dsVars, envVars, run, hist, tmVars>>

NextAgent == AgentNewSess \/ AgentGetChoiceProbs \/ AgentGetChoice \/ AgentUpdate

----------------------------------------------------------------------------
(* run_experiment *)

\* the attributes of an environment object
Attrs(e) ==
  IF e.kind = "drift" THEN {"_sigma", "reward_probs", "_new_sess", "step"}
  ELSE {"_block_flip_prob", "_reward_prob_high", "_reward_prob_low", "_block",
        "reward_probabilities", "new_block", "next_trial"}

Zeros(n) == [i \in 1..n |-> 0]

NoAgent == AgentQ_init(Zero, 0)
NoRun == [pc |-> "idle", n_trials |-> 0, trial |-> -1,
          choices |-> <<>>, rewards |-> <<>>, reward_probs |-> <<>>,
          choice |-> 0, reward |-> 0, err |-> "none", session |-> None]

NoTrial == [order |-> <<>>, probs_at_step |-> <<0, 0>>, q_at_choice |-> <<0, 0>>]

\* the ghost record of the current trial, with one more step taken
Took(step) == [hist EXCEPT ![Len(hist)].order = Append(@, step)]

RunRaise(e) == [run EXCEPT !.pc = "raised", !.err = e]

\* lines 300-302: the arrays of the session, all zeros
RunCall ==
  /\ run.pc = "call"
  /\ run' = [run EXCEPT !.pc = "for",
                        !.choices = Zeros(run.n_trials),
                        !.rewards = Zeros(run.n_trials),
                        !.reward_probs = [i \in 1..run.n_trials |-> <<0, 0>>]]
  /\ UNCHANGED <<dsVars, envVars, agent, agentOut, hist, tmVars>>

\* line 304: for trial in np.arange(n_trials)
RunFor ==
  /\ run.pc = "for"
  /\ IF run.trial + 1 < run.n_trials
     THEN /\ run' = [run EXCEPT !.pc = "record", !.trial = run.trial + 1]
          /\ hist' = Append(hist, NoTrial)
     ELSE /\ run' = [run EXCEPT !.pc = "return"]
          /\ hist' = hist
  /\ UNCHANGED <<dsVars, envVars, agent, agentOut, tmVars>>

\* line 306: reward_probs[trial] = environment.reward_probs
RunRecord ==
  /\ run.pc = "record"
  /\ IF "reward_probs" \in Attrs(env)
     THEN /\ run' = [run EXCEPT !.pc = "choose",
                                !.reward_probs[run.trial + 1] = env.reward_probs]
          /\ hist' = Took("record")
     ELSE /\ run' = RunRaise("AttributeError")
          /\ hist' = hist
  /\ UNCHANGED <<dsVars, envVars, agent, agentOut, tmVars>>

\* line 308: choice = agent.get_choice()
RunChoose ==
  /\ run.pc = "choose"
  /\ \E choice \in AgentQ_get_choice(agent) :
        run' = [run EXCEPT !.pc = "step", !.choice = choice]
  /\ hist' = [Took("choose") EXCEPT ![Len(hist)].q_at_choice = agent.q]
  /\ UNCHANGED <<dsVars, envVars, agent, agentOut, tmVars>>

RunEnvStepThenRecord ==
  /\ run.pc = "step"
  /\ \E r \in EnvironmentBanditsDrift_step(env, run.choice) :
        /\ env' = r.obj
        /\ run' = [run EXCEPT !.pc = "update", !.reward = r.reward,
                              !.reward_probs[run.trial + 1] = r.obj.reward_probs]
  /\ hist' = [Took("step") EXCEPT ![Len(hist)].probs_at_step = env.reward_probs]
  /\ UNCHANGED <<dsVars, envOut, agent, agentOut, tmVars>>

\* line 310: reward = environment.step(choice)
RunEnvStep ==
  /\ run.pc = "step"
  /\ IF "step" \in Attrs(env)
     THEN /\ \E r \in EnvironmentBanditsDrift_step(env, run.choice) :
                /\ env' = r.obj
                /\ run' = IF r.err = "none"
                          THEN [run EXCEPT !.pc = "update", !.reward = r.reward]
                          ELSE RunRaise(r.err)
          /\ hist' = [Took("step") EXCEPT ![Len(hist)].probs_at_step = env.reward_probs]
     ELSE /\ run' = RunRaise("AttributeError")
          /\ UNCHANGED <<env, hist>>
  /\ UNCHANGED <<dsVars, envOut, agent, agentOut, tmVars>>

\* line 312: agent.update(choice, reward)
RunUpdate ==
  /\ run.pc = "update"
  /\ agent' = AgentQ_update(agent, run.choice, run.reward)
  /\ run' = [run EXCEPT !.pc = "log"]
  /\ hist' = Took("update")
  /\ UNCHANGED <<dsVars, envVars, agentOut, tmVars>>

RunLogAppend ==
  /\ run.pc = "log"
  /\ run' = [run EXCEPT !.pc = "for",
                        !.choices = Append(@, run.choice),
                        !.rewards = Append(@, run.reward)]
  /\ hist' = Took("log")
  /\ UNCHANGED <<dsVars, envVars, agent, agentOut, tmVars>>

\* lines 314-315: choices[trial] = choice; rewards[trial] = reward
RunLog ==
  /\ run.pc = "log"
  /\ run' = [run EXCEPT !.pc = "for",
                        !.choices[run.trial + 1] = run.choice,
                        !.rewards[run.trial + 1] = run.reward]
  /\ hist' = Took("log")
  /\ UNCHANGED <<dsVars, envVars, agent, agentOut, tmVars>>

\* lines 317-321: the BanditSession returned
RunReturn ==
  /\ run.pc = "return"
  /\ run' = [run EXCEPT !.pc = "returned",
                        !.session = Some([choices |-> run.choices,
                                          rewards |-> run.rewards,
                                          n_trials |-> run.n_trials,
                                          reward_probs |-> run.reward_probs])]
  /\ UNCHANGED <<dsVars, envVars, agent, agentOut, hist, tmVars>>

NextRun ==
  \/ RunCall \/ RunFor \/ RunRecord \/ RunChoose \/ RunEnvStep
  \/ RunUpdate \/ RunLog \/ RunReturn


----------------------------------------------------------------------------
(* train_model *)

\* the names that lines 1-94 of rnn_utils.py bind when they run: the imports
\* of lines 1-7 and the definitions of lines 9, 86 and 94
ModuleNames ==
  {"Any", "Callable", "Dict", "Optional", "Tuple", "np", "jnp", "hk", "optax",
   "chex", "DatasetRNN", "nan_in_dict", "train_model"}

\* What importing rnn_utils gives.  Line 4, "import jax/numpy as jnp", is not a
\* statement of Python: the file as it stands does not compile, the import
\* raises SyntaxError and binds no name, so that neither DatasetRNN nor
\* train_model can be called.  The other two outcomes are those of the file
\* with line 4 read as "import jax.numpy as jnp" and with the name jax bound as
\* well, in which the rest of the file runs as written.
Imports ==
  {[err |-> "SyntaxError", names |-> {}],
   [err |-> "none", names |-> ModuleNames],
   [err |-> "none", names |-> ModuleNames \cup {"jax"}]}

\* the parameters and the local variables of train_model (its co_varnames and
\* co_cellvars)
TrainLocals ==
  {"make_network", "training_dataset", "optimizer", "random_key", "opt_state",
   "params", "n_steps", "penalty_scale", "loss", "do_plot", "sample_xs", "_",
   "unroll_network", "key1", "categorical_loss", "penalized_categorical_loss",
   "losses", "train_step", "training_loss", "step", "key2", "xs", "ys",
   "categorical_log_likelihood", "compute_loss", "model"}

\* the parameters and local variables of the nested train_step, and the one
\* name it takes from train_model
TrainStepLocals ==
  {"params", "opt_state", "xs", "ys", "random_key", "loss", "grads"}
TrainStepFree == {"compute_loss"}

\* the names that train_model and train_step read (lines 144, 151, 207, 208,
\* 224, 232, 247) and that no line of the module binds: they resolve only after
\* the caller has assigned them in the module's namespace
CallerNames ==
  {"jax", "opt", "clipped_grads", "l_validation", "plt", "validation_loss"}

\* whether a read of the name succeeds in the body of train_model
Resolves(name) == name \in TrainLocals \cup globals

\* whether a read of the name succeeds in the body of train_step
ResolvesInStep(name) == name \in TrainStepLocals \cup TrainStepFree \cup globals

\* the keys of the dict losses, lines 193-196
LossNames == {"categorical", "penalized_categorical"}

TrainArgs(random_key, params, opt_state, n_steps, loss, do_plot) ==
  [random_key |-> random_key, params |-> params, opt_state |-> opt_state,
   n_steps |-> n_steps, loss |-> loss, do_plot |-> do_plot]

\* the frame at the call
TrainFrame(args) ==
  [pc |-> "call", args |-> args, random_key |-> args.random_key,
   params |-> args.params, opt_state |-> args.opt_state,
   step |-> -1, training_loss |-> <<>>, err |-> "none", line |-> 0,
   result |-> None]

NoTrain == [TrainFrame(TrainArgs(None, None, None, 0, "categorical", FALSE))
              EXCEPT !.pc = "idle"]

TrainRaise(e, line) == [tm EXCEPT !.pc = "raised", !.err = e, !.line = line]

\* the frame of a call that cannot be made: the import of the module failed
ImportFailed == [NoTrain EXCEPT !.pc = "raised", !.err = "SyntaxError", !.line = 4]

\* nan_in_dict(params)
nan_in_dict(params) == params[1].nan

\* line 128: sample_xs, _ = next(training_dataset)
TrainSample ==
  /\ tm.pc = "call"
  /\ LET r == DatasetRNN_next(ds)
     IN  /\ ds' = r.obj
         /\ dsErr' = r.err
         /\ served' = IF r.err = "none" THEN Append(served, r.batch[1]) ELSE served
         /\ tm' = IF r.err = "none" THEN [tm EXCEPT !.pc = "parse"]
                  ELSE TrainRaise(r.err, 72)
  /\ UNCHANGED <<envVars, runVars, globals>>

\* lines 143-151: the defaults of random_key, params and opt_state.  A raise
\* leaves the frame with the assignments of the lines that ran before it: at
\* line 151 random_key is a key (line 144) and params are initialised (lines
\* 147-148)
TrainParse ==
  /\ tm.pc = "parse"
  /\ LET keyed == [tm EXCEPT !.random_key = Some(0),
                             !.params = IF tm.params = None
                                        THEN Some([steps |-> 0, nan |-> FALSE])
                                        ELSE @]
     IN  tm' =
           IF tm.random_key = None /\ ~Resolves("jax")
           THEN TrainRaise("NameError", 144)
           ELSE IF tm.params = None /\ ~Resolves("jax")
           THEN TrainRaise("NameError", 147)
           ELSE IF tm.opt_state = None /\ ~Resolves("opt")
           THEN [keyed EXCEPT !.pc = "raised", !.err = "NameError", !.line = 151]
           ELSE [keyed EXCEPT !.pc = "define",
                              !.opt_state = IF tm.opt_state = None
                                            THEN Some([steps |-> 0]) ELSE @]
  /\ UNCHANGED <<dsVars, envVars, runVars, globals>>

\* lines 193-209: compute_loss = jax.jit(losses[loss]) and the jitted train_step
TrainDefine ==
  /\ tm.pc = "define"
  /\ tm' = IF ~Resolves("jax") THEN TrainRaise("NameError", 197)
           ELSE IF tm.args.loss \notin LossNames THEN TrainRaise("KeyError", 197)
           ELSE [tm EXCEPT !.pc = "for"]
  /\ UNCHANGED <<dsVars, envVars, runVars, globals>>

\* line 213: for step in jnp.arange(n_steps)
TrainFor ==
  /\ tm.pc = "for"
  /\ tm' = IF tm.step + 1 < tm.args.n_steps
           THEN [tm EXCEPT !.pc = "step", !.step = tm.step + 1]
           ELSE [tm EXCEPT !.pc = "after"]
  /\ UNCHANGED <<dsVars, envVars, runVars, globals>>

\* lines 214-225: one pass of the loop body, train_step (lines 204-209) and the
\* loss it computes (lines 154-172) included; whether the loss is NaN is free.
\* Line 208 computes the new params as optax.apply_updates(params,
\* clipped_grads), the leafwise sum of the two: a NaN in params stays, and
\* whether the sum brings one in depends on what the two hold, which is free.
TrainStep ==
  /\ tm.pc = "step"
  /\ \E nan \in BOOLEAN, params_nan \in BOOLEAN :
       LET r == DatasetRNN_next(ds)
           stepped == [tm EXCEPT !.params =
                                   Some([@[1] EXCEPT !.steps = @ + 1,
                                                     !.nan = @ \/ params_nan]),
                                 !.opt_state = Some([@[1] EXCEPT !.steps = @ + 1])]
           logged == [stepped EXCEPT !.training_loss =
                         Append(@, [step |-> tm.step + 1, nan |-> nan])]
       IN  /\ ds' = r.obj
           /\ dsErr' = r.err
           /\ served' = IF r.err = "none" THEN Append(served, r.batch[1]) ELSE served
           /\ tm' =
                IF r.err # "none" THEN TrainRaise(r.err, 72)
                ELSE IF r.batch[1].features[2] # 1 THEN TrainRaise("ValueError", 160)
                ELSE IF ~ResolvesInStep("opt") THEN TrainRaise("NameError", 207)
                ELSE IF ~ResolvesInStep("clipped_grads")
                     THEN TrainRaise("NameError", 208)
                ELSE IF tm.step % 10 # 9 THEN [stepped EXCEPT !.pc = "for"]
                ELSE IF ~Resolves("l_validation")
                     THEN [logged EXCEPT !.pc = "raised", !.err = "NameError",
                                         !.line = 224]
                ELSE [logged EXCEPT !.pc = "for"]
  /\ UNCHANGED <<envVars, runVars, globals>>

\* lines 228-250: the plot, the NaN checks and the return; whether a
\* validation_loss found in the module's namespace ends in NaN is free
TrainAfter ==
  /\ tm.pc = "after"
  /\ \E validation_nan \in BOOLEAN :
       tm' =
         IF tm.args.n_steps > 1 /\ tm.args.do_plot /\ ~Resolves("plt")
         THEN TrainRaise("NameError", 232)
         ELSE IF nan_in_dict(tm.params) THEN TrainRaise("ValueError", 244)
         ELSE IF Len(tm.training_loss) > 0
                 /\ tm.training_loss[Len(tm.training_loss)].nan
              THEN TrainRaise("ValueError", 246)
         ELSE IF ~Resolves("validation_loss") THEN TrainRaise("NameError", 247)
         ELSE IF validation_nan THEN TrainRaise("ValueError", 248)
         ELSE [tm EXCEPT !.pc = "returned",
                         !.result = Some([params |-> tm.params,
                                          opt_state |-> tm.opt_state,
                                          losses |-> tm.training_loss])]
  /\ UNCHANGED <<dsVars, envVars, runVars, globals>>

NextTrain ==
  TrainSample \/ TrainParse \/ TrainDefine \/ TrainFor \/ TrainStep \/ TrainAfter

----------------------------------------------------------------------------
(* Specifications *)

NoDataset == DatasetArgs(<<1, 0, 1>>, <<1, 0, 1>>, None)

\* DatasetRNN(xs, ys, batch_size) about to be called, or the failed import
InitDataset ==
  /\ tm = NoTrain
  /\ env = NoEnv
  /\ envOut = NoCall
  /\ agent = NoAgent /\ agentOut = NoAgentCall /\ run = NoRun /\ hist = <<>>
  /\ served = <<>>
  /\ \E imp \in Imports :
        /\ globals = imp.names
        /\ dsErr = imp.err
        /\ IF imp.err # "none" THEN ds = [NoDataset EXCEPT !.state = "raised"]
           ELSE \E xs \in Shapes, ys \in Shapes, bs \in BatchSizeArgs :
                   ds = DatasetArgs(xs, ys, bs)


InitEnv ==
  /\ globals = ModuleNames /\ tm = NoTrain
  /\ agent = NoAgent /\ agentOut = NoAgentCall /\ run = NoRun /\ hist = <<>>
  /\ ds = NoDataset
  /\ served = <<>>
  /\ dsErr = "none"
  /\ envOut = NoCall
  /\ \/ \E sigma \in Sigmas : env = DriftArgs(sigma)
     \/ \E flip \in Probs, high \in Probs, low \in Probs :
           env = FlipsArgs(flip, high, low)

\* run_experiment(agent, environment, n_trials) on a Q-learning agent
\* (alpha = 0.5, beta = 1) and an environment of either class, both
\* freshly constructed
InitRun ==
  /\ globals = ModuleNames /\ tm = NoTrain
  /\ ds = NoDataset
  /\ served = <<>>
  /\ dsErr = "none"
  /\ envOut = NoCall
  /\ \/ \E sigma \in {0, 1}, s0 \in Rand, s1 \in Rand :
           env = EnvironmentBanditsDrift_init(sigma, <<s0, s1>>).obj
     \/ \E flip \in Probs, high \in Probs, low \in Probs, block0 \in {0, 1} :
           env = EnvironmentBanditsFlips_init(flip, high, low, block0)
  /\ agent = AgentQ_init(Half, 1) /\ agentOut = NoAgentCall
  /\ \E n \in 0..MaxTrials : run = [NoRun EXCEPT !.pc = "call", !.n_trials = n]
  /\ hist = <<>>

ParamsArgs == {None, Some([steps |-> 0, nan |-> FALSE]),
               Some([steps |-> 0, nan |-> TRUE])}

\* the frame of a call of train_model, for each choice of its arguments
TrainCalled ==
  \E random_key \in {None, Some(0)}, params \in ParamsArgs,
     opt_state \in {None, Some([steps |-> 0])}, n_steps \in 0..MaxSteps,
     loss \in LossNames \cup {"mse"}, do_plot \in BOOLEAN :
     tm = TrainFrame(TrainArgs(random_key, params, opt_state, n_steps,
                               loss, do_plot))

\* train_model(make_network, dataset, ...) on a freshly constructed dataset
\* with xs of 2 features, in the namespace the import leaves or in the one in
\* which the caller has bound the names of CallerNames, or the failed import
InitTrain ==
  /\ env = NoEnv
  /\ envOut = NoCall
  /\ agent = NoAgent /\ agentOut = NoAgentCall /\ run = NoRun /\ hist = <<>>
  /\ served = <<>>
  /\ \E imp \in Imports :
        /\ dsErr = imp.err
        /\ IF imp.err # "none"
           THEN /\ globals = imp.names
                /\ ds = [NoDataset EXCEPT !.state = "raised"] /\ tm = ImportFailed
           ELSE /\ \E bound \in {{}, CallerNames} : globals = imp.names \cup bound
                /\ \E e \in 0..MaxE, f \in Features, bs \in BatchSizeArgs :
                      LET r == DatasetRNN_init(<<1, e, 2>>, <<1, e, f>>, bs)
                      IN  r.err = "none" /\ ds = r.obj
                /\ TrainCalled

Betas == {1, 3}

\* the rates passed to the constructor of the actor-critic agent
ActorRates == {Zero, Half, One}

\* a freshly constructed agent of one of the three classes
InitAgent ==
  /\ globals = ModuleNames /\ tm = NoTrain
  /\ ds = NoDataset
  /\ served = <<>>
  /\ dsErr = "none"
  /\ env = NoEnv
  /\ envOut = NoCall
  /\ run = NoRun /\ hist = <<>>
  /\ \/ \E alpha \in Alphas, beta \in Betas : agent = AgentQ_init(alpha, beta)
     \/ \E alpha_critic \in ActorRates, learn \in ActorRates,
           forget \in ActorRates :
           agent = AgentLeakyActorCritic_init(alpha_critic, learn, forget)
     \/ agent = AgentNetwork_init
  /\ agentOut = [NoAgentCall EXCEPT !.op = "init"]

SpecAgent == InitAgent /\ [][NextAgent]_vars

SpecTrain == InitTrain /\ [][NextTrain]_vars

SpecRun == InitRun /\ [][NextRun]_vars

SpecDataset == InitDataset /\ [][NextDataset]_vars

SpecEnv == InitEnv /\ [][NextEnv]_vars

----------------------------------------------------------------------------
(* Properties of DatasetRNN, checked under SpecDataset *)

\* b is a batch of exactly batch_size contiguous episodes [start, start+batch_size)
FullBatch(b) ==
  /\ b.end = b.start + ds.batch_size
  /\ b.episodes = [k \in 1..ds.batch_size |-> b.start + k - 1]

CursorInvariant ==
  /\ 0 <= ds.idx /\ ds.idx < ds.dataset_size
  /\ PyMod(ds.idx, ds.batch_size) = 0
  /\ \A i \in 1..Len(served) : FullBatch(served[i])
  /\ dsErr # "AssertionError"
  /\ served # <<>> =>
        (ds.idx = 0 <=> served[Len(served)].end = ds.dataset_size)

\* C1: in every constructed DatasetRNN, after any number of __next__ calls, the
\* cursor is in [0, dataset_size) and a multiple of batch_size, every batch
\* returned holds exactly batch_size contiguous episodes, the assertion
\* end <= dataset_size has not failed, and the cursor is 0 exactly when the last
\* slice ended at dataset_size.
C1_CursorInvariant == ds.state = "ok" => CursorInvariant

\* The same for the datasets with at least one episode and a positive batch size.
CursorInvariantWhenPositive ==
  (ds.state = "ok" /\ ds.dataset_size >= 1 /\ ds.batch_size >= 1) => CursorInvariant

Cyclic ==
  /\ ds.n_batches * ds.batch_size = ds.dataset_size
  /\ dsErr # "AssertionError"
  /\ \A k \in 1..Len(served) :
        /\ (k + ds.n_batches) \in 1..Len(served) =>
              served[k + ds.n_batches].episodes = served[k].episodes
        /\ k <= ds.n_batches =>
              served[k].episodes =
                 [j \in 1..ds.batch_size |-> (k - 1) * ds.batch_size + j - 1]

\* C3: iteration is cyclic with period n_batches = dataset_size / batch_size:
\* every call returns a batch, the k-th and the (k + n_batches)-th calls return
\* the same episodes, and the calls of one period partition the episodes in order.
C3_CyclicIteration == ds.state = "ok" => Cyclic

\* The same for the datasets with at least one episode and a positive batch size.
CyclicWhenPositive ==
  (ds.state = "ok" /\ ds.dataset_size >= 1 /\ ds.batch_size >= 1) => Cyclic

\* a is an integer multiple of b
Divisible(a, b) == \E k \in (-MaxE)..MaxE : a = k * b

\* C4: the constructor raises ValueError, and yields no dataset, when xs and ys
\* differ in timestep count or in episode count or when the episode count is
\* not divisible by batch_size; otherwise it succeeds, batch_size defaulting to
\* the episode count.
C4_ConstructorValidation ==
  LET batch_size == IF ds.bs = None THEN ds.xs[2] ELSE ds.bs[1]
      invalid == \/ ds.xs[1] # ds.ys[1]
                 \/ ds.xs[2] # ds.ys[2]
                 \/ ~Divisible(ds.xs[2], batch_size)
  IN  ds.state # "args" =>
         IF invalid THEN ds.state = "raised" /\ dsErr = "ValueError"
         ELSE ds.state = "ok" /\ ds.batch_size = batch_size

----------------------------------------------------------------------------
(* Properties of the environments, checked under SpecEnv *)

\* C5: both reward probabilities of a constructed drifting environment lie in
\* [0, 1], after construction and after any number of step calls.
C5_DriftProbsInRange ==
  (env.kind = "drift" /\ env.state = "ok") =>
     \A i \in 1..2 : 0 <= env.reward_probs[i] /\ env.reward_probs[i] <= PScale

\* a step has just drifted arm 0 above 1 and arm 1 below 0, and both were clamped
C5_Witness ==
  /\ env.kind = "drift" /\ env.state = "ok"
  /\ envOut.op = "step" /\ envOut.err = "none"
  /\ envOut.drift = <<MaxDrift, -MaxDrift>>
  /\ env.reward_probs = <<PScale, 0>>

BlockParity ==
  (env.kind = "flips" /\ env.state = "ok") =>
     env.reward_probabilities =
        IF env.block = 1 THEN <<env.reward_prob_high, env.reward_prob_low>>
        ELSE <<env.reward_prob_low, env.reward_prob_high>>

Swap(p) == <<p[2], p[1]>>

\* C6: the arm probabilities always follow block parity, and with
\* block_flip_prob = 1 every next_trial call swaps the assignment.
C6_FlipsAlternate ==
  /\ []BlockParity
  /\ [][(/\ env.kind = "flips" /\ env.state = "ok"
         /\ env.block_flip_prob = PScale
         /\ envOut'.op = "next_trial" /\ envOut'.err = "none")
        => /\ env'.block = 1 - env.block
           /\ env'.reward_probabilities = Swap(env.reward_probabilities)]_vars

\* with block_flip_prob = 1 and high # low, a next_trial call has flipped to block 0
C6_Witness ==
  /\ env.kind = "flips" /\ env.state = "ok"
  /\ env.block_flip_prob = PScale
  /\ env.reward_prob_high # env.reward_prob_low
  /\ envOut.op = "next_trial" /\ envOut.flipped = 1
  /\ env.block = 0
  /\ env.reward_probabilities = <<env.reward_prob_low, env.reward_prob_high>>

\* C7: next_trial samples the reward with the probability the chosen arm had
\* when the call began; a flip made by the call does not change it.
C7_RewardBeforeFlip ==
  [][(/\ env.kind = "flips" /\ env.state = "ok"
      /\ envOut'.op = "next_trial" /\ envOut'.err = "none")
     => LET before == env.reward_probabilities[ListIndex(envOut'.choice)]
        IN  /\ envOut'.reward_prob_trial = before
            /\ envOut'.reward \in Binomial(before)]_vars

\* a call has flipped the block and paid a reward on an arm that now pays never
C7_Witness ==
  /\ env.kind = "flips" /\ env.state = "ok"
  /\ envOut.op = "next_trial" /\ envOut.err = "none"
  /\ envOut.flipped = 1 /\ envOut.reward = 1
  /\ env.reward_probabilities[ListIndex(envOut.choice)] = 0

----------------------------------------------------------------------------
(* Properties of run_experiment, checked under SpecRun *)

\* the steps of one trial, in the order of lines 306-315
TrialOrder == <<"record", "choose", "step", "update", "log">>

IsPrefix(a, b) == Len(a) <= Len(b) /\ a = SubSeq(b, 1, Len(a))

\* the value estimates of the agent after the logged trials 1..n
RECURSIVE QAfter(_)
QAfter(n) ==
  IF n = 0 THEN AgentQ_init(agent.alpha, agent.beta)
  ELSE AgentQ_update(QAfter(n - 1), run.choices[n], run.rewards[n])

\* C2: in every trial the steps are taken in the order record, choose, step,
\* update, log; reward_probs[t] is the probabilities the environment had before
\* the step of trial t, and the choice of trial t is made from the agent state
\* that holds exactly the updates of the trials before t.
C2_TrialOrder ==
  run.pc # "idle" =>
     /\ Len(hist) = run.trial + 1
     /\ \A t \in 1..Len(hist) :
           LET done == Len(hist[t].order)
           IN  /\ IsPrefix(hist[t].order, TrialOrder)
               /\ t < Len(hist) => hist[t].order = TrialOrder
               /\ done \in 1..2 => run.reward_probs[t] = env.reward_probs
               /\ done >= 3 => run.reward_probs[t] = hist[t].probs_at_step
               /\ done >= 2 => hist[t].q_at_choice = QAfter(t - 1).q
     /\ run.pc = "returned" =>
           /\ Len(hist) = run.n_trials
           /\ run.session[1].reward_probs =
                 [t \in 1..run.n_trials |-> hist[t].probs_at_step]

\* a run of two trials has returned; the environment drifted in each trial, and
\* the second choice was made after the first update
C2_Witness ==
  /\ env.kind = "drift" /\ run.pc = "returned" /\ run.n_trials = 2
  /\ run.session[1].reward_probs[1] # run.session[1].reward_probs[2]
  /\ run.session[1].reward_probs[2] # env.reward_probs
  /\ hist[2].q_at_choice # <<Half, Half>>

\* C8: run_experiment on a flipping-block environment completes every trial
\* without error and returns the high/low assignment seen before each trial.
C8_RunWithFlips ==
  env.kind = "flips" =>
     /\ run.pc # "raised"
     /\ run.pc = "returned" =>
           \A t \in 1..run.n_trials :
              run.session[1].reward_probs[t] \in
                 {<<env.reward_prob_high, env.reward_prob_low>>,
                  <<env.reward_prob_low, env.reward_prob_high>>}

\* C9: the session returned for a drifting environment and a Q-learning agent
\* has n_trials choices and rewards, each 0 or 1, n_trials rows of 2 reward
\* probabilities, and the n_trials of the call.
C9_SessionShape ==
  (run.pc = "returned" /\ env.kind = "drift" /\ agent.kind = "Q") =>
     LET s == run.session[1]
         n == run.n_trials
     IN  /\ Len(s.choices) = n /\ Len(s.rewards) = n /\ Len(s.reward_probs) = n
         /\ \A i \in 1..n : /\ s.choices[i] \in {0, 1}
                            /\ s.rewards[i] \in {0, 1}
                            /\ Len(s.reward_probs[i]) = 2
         /\ s.n_trials = n

\* a run of MaxTrials trials has returned with both arms chosen and a reward paid
C9_Witness ==
  /\ run.pc = "returned" /\ env.kind = "drift" /\ agent.kind = "Q"
  /\ run.n_trials = MaxTrials
  /\ \E i, j, k \in 1..MaxTrials :
        /\ run.session[1].choices[i] = 0
        /\ run.session[1].choices[j] = 1
        /\ run.session[1].rewards[k] = 1

----------------------------------------------------------------------------
(* Properties of train_model, checked under SpecTrain *)

\* C10: train_model with n_steps = 0 and params and opt_state supplied does not
\* raise: it returns the supplied params and opt_state and an empty sequence of
\* recorded losses.  (Stated for a dataset that serves batches, a supplied
\* random_key, params without NaN and a loss the function knows.)
C10_ZeroSteps ==
  (/\ tm.pc \in {"raised", "returned"}
   /\ tm.args.n_steps = 0
   /\ tm.args.params # None /\ ~nan_in_dict(tm.args.params)
   /\ tm.args.opt_state # None
   /\ tm.args.random_key # None
   /\ tm.args.loss \in LossNames
   /\ ds.dataset_size >= 1 /\ ds.batch_size >= 1)
  => /\ tm.pc = "returned"
     /\ tm.result = Some([params |-> tm.args.params,
                          opt_state |-> tm.args.opt_state,
                          losses |-> <<>>])

\* a call on a dataset that serves batches of labels with one feature, with
\* random_key, params (without NaN) and opt_state supplied and a loss the
\* function knows, in the namespace that binds jax
PlainCall ==
  /\ "jax" \in globals
  /\ ds.ys[3] = 1
  /\ tm.args.params # None /\ ~nan_in_dict(tm.args.params)
  /\ tm.args.opt_state # None
  /\ tm.args.random_key # None
  /\ tm.args.loss \in LossNames
  /\ ds.dataset_size >= 1 /\ ds.batch_size >= 1

\* the call has ended, by a return or by an exception
TrainEnded == tm.pc \in {"raised", "returned"}

\* C11: a run of n_steps >= 1 steps performs every step on the params and
\* optimizer state of the step before, and records the loss of every 10th step
\* and of no other: it ends with floor(n_steps / 10) recorded losses, the i-th
\* the loss of step 10 * i.
C11_LossEveryTenth ==
  (TrainEnded /\ PlainCall /\ tm.args.n_steps >= 1) =>
     /\ tm.pc = "returned"
     /\ tm.params[1].steps = tm.args.n_steps
     /\ tm.opt_state[1].steps = tm.args.n_steps
     /\ Len(tm.training_loss) = tm.args.n_steps \div 10
     /\ \A i \in 1..Len(tm.training_loss) : tm.training_loss[i].step = 10 * i

\* the call has ended at or after the checks that follow the loop
EndedAfterLoop ==
  \/ tm.pc = "returned"
  \/ tm.pc = "raised" /\ tm.line \in {244, 246, 247, 248}

\* C12: once the loop has ended, train_model raises ValueError if a parameter or
\* the last recorded loss is NaN, and returns (params, opt_state, losses)
\* otherwise.
C12_NanCheck ==
  (EndedAfterLoop /\ tm.args.loss \in LossNames) =>
     IF \/ nan_in_dict(tm.params)
        \/ Len(tm.training_loss) > 0 /\ tm.training_loss[Len(tm.training_loss)].nan
     THEN tm.pc = "raised" /\ tm.err = "ValueError"
     ELSE tm.pc = "returned"

\* C19: train_model draws one batch before the loop and one batch per step, so
\* a call with n_steps steps has drawn n_steps + 1 batches when it ends, and
\* leaves the cursor advanced by that many batches.
C19_BatchesDrawn ==
  (TrainEnded /\ PlainCall) =>
     /\ Len(served) = tm.args.n_steps + 1
     /\ ds.idx = PyMod((tm.args.n_steps + 1) * ds.batch_size, ds.dataset_size)

\* What holds of the draws: a call that got past line 128 has drawn the first
\* batch, a call with n_steps = 0 ends with exactly that one batch drawn, and a
\* batch drawn by the first step is the second batch of the dataset.
BatchesDrawnAsFarAsRun ==
  (ds.dataset_size >= 1 /\ ds.batch_size >= 1 /\ tm.pc \notin {"idle", "call"}) =>
     /\ Len(served) >= 1 /\ served[1].start = 0
     /\ (TrainEnded /\ tm.args.n_steps = 0) =>
           Len(served) = 1
           /\ ds.idx = PyMod(ds.batch_size, ds.dataset_size)
     /\ (Len(served) >= 2 /\ ds.n_batches > 1) => served[2].start = ds.batch_size

\* C13: EnvironmentBanditsDrift(sigma) raises ValueError when sigma < 0, with
\* no reward probabilities sampled, and for every sigma >= 0, zero included,
\* returns an environment whose two reward probabilities have been sampled.
C13_SigmaValidation ==
  (env.kind = "drift" /\ envOut.op = "init") =>
     IF env.sigma < 0
     THEN env.state = "raised" /\ envOut.err = "ValueError"
          /\ env.reward_probs = None
     ELSE env.state = "ok" /\ envOut.err = "none"
          /\ env.reward_probs \in Rand \X Rand

C13_Witness ==
  /\ env.kind = "drift" /\ envOut.op = "init" /\ env.sigma = -1
  /\ env.state = "raised" /\ envOut.err = "ValueError"

\* C18: a call of EnvironmentBanditsDrift.step raises ValueError exactly when
\* choice is neither 0 nor 1, and the failed call changes nothing: the
\* environment, its reward probabilities included, is as it was before the call,
\* no reward is returned and no drift is drawn.
C18_InvalidChoice ==
  [][(env.kind = "drift" /\ env.state = "ok" /\ envOut'.op = "step") =>
        /\ (envOut'.choice \notin {0, 1}) <=> (envOut'.err = "ValueError")
        /\ (envOut'.err = "ValueError") =>
              /\ env' = env
              /\ envOut'.reward = 0 /\ envOut'.drift = <<0, 0>>]_vars

C18_Witness ==
  /\ env.kind = "drift" /\ env.state = "ok" /\ env.sigma = 1
  /\ envOut.op = "step" /\ envOut.choice = 2 /\ envOut.err = "ValueError"

----------------------------------------------------------------------------
(* Properties of the agents, checked under SpecAgent *)

\* the last call was update on a Q-learning agent with 0 < alpha < 1
QUpdated ==
  /\ agent.kind = "Q" /\ agentOut.op = "update"
  /\ DLess(Zero, agent.alpha) /\ DLess(agent.alpha, One)

\* q[choice] before and after the last update, and the exact value of
\* (1 - alpha) * q[choice] + alpha * reward
OldQ == agentOut.before.q[agentOut.choice + 1]
NewQ == agent.q[agentOut.choice + 1]
ExactQ ==
  LET product == DMul(DSub(One, agent.alpha), OldQ)
      gain == DMulNat(agent.alpha, agentOut.reward)
  IN  DAdd(product, gain)

\* C14 as stated: every update with reward 1 strictly increases q[choice] and
\* every update with reward 0 strictly decreases it.
C14_StrictlyMonotone ==
  QUpdated =>
     /\ agentOut.reward = 1 => DLess(OldQ, NewQ)
     /\ agentOut.reward = 0 => DLess(NewQ, OldQ)

\* C14: an update with reward 1 never decreases q[choice] and an update with
\* reward 0 never increases it, and the change is strict whenever the exact
\* value of (1 - alpha) * q[choice] + alpha * reward differs from q[choice] by
\* at least 2^-52; the new value is that expression as evaluated in floating
\* point, which is within 2^-52 of its exact value.
C14_UpdateDirection ==
  QUpdated =>
     LET exact == ExactQ
         ulp == Pow2Neg(MantissaBits - 1)
     IN  /\ DLeq(exact, DAdd(NewQ, ulp))
         /\ DLeq(NewQ, DAdd(exact, ulp))
         /\ agentOut.reward = 1 =>
               /\ DLeq(OldQ, NewQ)
               /\ DLeq(DAdd(OldQ, ulp), exact) => DLess(OldQ, NewQ)
         /\ agentOut.reward = 0 =>
               /\ DLeq(NewQ, OldQ)
               /\ DLeq(DAdd(exact, ulp), OldQ) => DLess(NewQ, OldQ)

\* an update with reward 1 on a value above 0.5 that increases the value, where
\* the float stored is not the exact value (the learning rate is not 0.5)
C14_Witness ==
  /\ QUpdated /\ agentOut.reward = 1
  /\ DLess(Half, OldQ) /\ DLess(OldQ, NewQ)
  /\ NewQ # ExactQ

\* the last call on a network agent was get_choice_probs or get_choice
NetRead ==
  agent.kind = "Net" /\ agentOut.op \in {"get_choice_probs", "get_choice"}

\* C15: get_choice_probs and get_choice of AgentNetwork leave the hidden state
\* and the cached input as they were, and compute the probabilities from them;
\* update(choice, reward) sets the cached input to [choice, reward] and then
\* advances the hidden state once, on that input.
C15_NetworkState ==
  /\ NetRead =>
        /\ agent = agentOut.before
        /\ agentOut.probs =
              [softmax |-> model_fun(agentOut.before.xs,
                                     agentOut.before.state).y_hat]
  /\ (agent.kind = "Net" /\ agentOut.op = "update") =>
        /\ agent.xs = <<agentOut.choice, agentOut.reward>>
        /\ agent.state = Append(agentOut.before.state, agent.xs)
        /\ agent.initial_state = agentOut.before.initial_state

C15_Witness ==
  /\ NetRead /\ agentOut.op = "get_choice"
  /\ agent.xs = <<1, 1>> /\ agent.state = <<<<1, 1>>>>

\* the agent that the constructor returns for the parameters of agent a
Fresh(a) ==
  CASE a.kind = "Q" -> AgentQ_init(a.alpha, a.beta)
    [] a.kind = "AC" -> AgentLeakyActorCritic_init(a.alpha_critic,
                          a.alpha_actor_learn, a.alpha_actor_forget)
    [] a.kind = "Net" -> AgentNetwork_init

\* C16: after new_sess, whatever calls came before it, get_choice_probs of the
\* agent computes what it computes for a freshly constructed agent with the same
\* parameters, for each of the three agent classes.
C16_NewSessResets ==
  agentOut.op = "new_sess" =>
     get_choice_probs(agent).probs = get_choice_probs(Fresh(agent)).probs

\* What holds of new_sess: it resets the Q-learning and the actor-critic agent
\* to the freshly constructed agent, and the hidden state of the network agent
\* to the initial state.
NewSessResetsAllButInput ==
  agentOut.op = "new_sess" =>
     IF agent.kind = "Net"
     THEN agent.state = agent.initial_state
     ELSE agent = Fresh(agent)

\* C17: AgentQ.update(choice, reward) changes nothing but q[choice]: the value
\* of the other arm, alpha and beta are as before the call; get_choice_probs
\* and get_choice leave the whole agent as it was.
C17_UpdateOnlyChosen ==
  agent.kind = "Q" =>
     /\ agentOut.op = "update" =>
           /\ agent.q[2 - agentOut.choice] = agentOut.before.q[2 - agentOut.choice]
           /\ agent.alpha = agentOut.before.alpha
           /\ agent.beta = agentOut.before.beta
           /\ agent = [agentOut.before EXCEPT !.q[agentOut.choice + 1] = NewQ]
     /\ agentOut.op \in {"get_choice_probs", "get_choice"} =>
           agent = agentOut.before

C17_Witness ==
  /\ agent.kind = "Q" /\ agentOut.op = "update"
  /\ NewQ # OldQ
  /\ agent.q[2 - agentOut.choice] # Half

====
